---- MODULE Spec2Model ----
(***************************************************************************)
(* Model of assets/pyscript/potify.py: compute_angles, v_cone and v_pot.   *)
(*                                                                         *)
(* Numbers.  A float is modelled by the real number it stands for, held as *)
(* a reduced fraction n/d, together with the IEEE values the code can      *)
(* produce (+inf, -inf, nan).  All records have the fields k, n, d:        *)
(*    [k |-> "fin",  n |-> numerator, d |-> denominator > 0]               *)
(*    [k |-> "inf",  n |-> 1 or -1,   d |-> 0]                             *)
(*    [k |-> "nan",  n |-> 0,         d |-> 0]                             *)
(*    [k |-> "huge", n |-> 1 or -1,   d |-> 0]     n * 1.633123935319537e16*)
(*    [k |-> "tiny", n |-> numerator, d |-> denominator > 0]               *)
(*                                     (n/d) / 1.633123935319537e16        *)
(*    [k |-> "none", n |-> 0,         d |-> 0]     (not assigned yet)      *)
(* "huge" is np.tan of the float nearest -pi/2 (or its opposite), which    *)
(* the code reaches when numpy float64 arguments give a zero width; "tiny" *)
(* is a number divided by it.  The fraction 0/1 stands for both float      *)
(* zeros, which are equal as numbers and differ only as divisors.  As a    *)
(* divisor it is +0.0: the code divides by a zero at line 68 (width, from  *)
(* x - x = +0.0 for equal positive diameters) and at line 113 (np.tan of   *)
(* alpha = +0.0).  A width of -0.0, which needs a diameter given as -0.0   *)
(* or an underflow, has no counterpart here.                               *)
(*                                                                         *)
(* Rounding is not modelled.  Where the model is defined (see TanDefined   *)
(* and Absorbs) the code's floats are within these distances of it:        *)
(*   tan_beta, np.tan(alpha), h_small_cone, v_small_cone: the model's      *)
(*     value up to a relative 1e-9;                                        *)
(*   h_big_cone (line 114): 1e-9 * (height + |h_small_cone|);              *)
(*   v_big_cone: 1e-9 * ray^2 * (height + |h_small_cone|) / 3;             *)
(*   the returned difference (line 118):                                   *)
(*     1e-9 * (ray_top^2 + ray_base^2) * (height + |h_small_cone|) / 3.    *)
(* The last three are absolute: height + h_small_cone and v_big_cone -     *)
(* v_small_cone cancel when their terms are opposite, and a zero or a sign *)
(* of such a sum in the model is a float of at most that size, of either   *)
(* sign, in the code (v_pot(3, 5, 2): h_big_cone is 0 here, -4.4e-16 in    *)
(* the code).  On the inputs explored here the returned values agree to    *)
(* 1e-14.  Bit equality of two floats is not expressible.                  *)
(*                                                                         *)
(* Angles.  np.arctan and np.tan are transcendental, so an angle is held   *)
(* symbolically as  c*pi + m*arctan(t)  in a record [c, m, t] with c a     *)
(* number, m an integer and t a number.  np.tan of RAD_180 - 2*arctan(t)   *)
(* is computed by the double angle identity, for t in TanDefined only.     *)
(*                                                                         *)
(* Volumes.  np.pi is a positive factor of every volume (line 79); a       *)
(* volume is held in units of pi, i.e. as ray^2 * height / 3.  PiLo and    *)
(* PiHi bracket pi where a claim needs a decimal value.                    *)
(***************************************************************************)
EXTENDS Integers, Sequences, FiniteSets

(* ---------------------------- bounds ---------------------------------- *)
\* lengths 1..MaxLen are tried for both diameters and the height
MaxLen == 7
\* diameter_top = diameter_base + 1/2^j, j in 1..MaxEpsExp, is tried as well,
\* for diameter_base and height in 1..MaxEpsLen
MaxEpsExp == 3
MaxEpsLen == 2

(* ---------------------------- numbers --------------------------------- *)
RECURSIVE GCD(_, _)
GCD(a, b) == IF b = 0 THEN a ELSE GCD(b, a % b)

Abs(i) == IF i < 0 THEN -i ELSE i

Fin(n, d) ==
    LET s == IF d < 0 THEN -1 ELSE 1
        g == GCD(Abs(n), Abs(d))
    IN  [k |-> "fin", n |-> (s * n) \div g, d |-> (s * d) \div g]

PosInf == [k |-> "inf", n |-> 1, d |-> 0]
NegInf == [k |-> "inf", n |-> -1, d |-> 0]
NaN == [k |-> "nan", n |-> 0, d |-> 0]
None == [k |-> "none", n |-> 0, d |-> 0]

Int2(i) == Fin(i, 1)

\* s * 1.633123935319537e16, s = 1 or -1
Huge(s) == [k |-> "huge", n |-> s, d |-> 0]

\* c / 1.633123935319537e16, for a fraction c
Tiny(c) == [k |-> "tiny", n |-> c.n, d |-> c.d]

\* the fraction c of a tiny value
Coef(x) == Fin(x.n, x.d)

\* ratio below which a tiny value disappears in a sum with a fraction
AbsorbRange == 2 ^ 20

\* the tiny value y is less than 1e-10 of the fraction x # 0 (its coefficient
\* is at most AbsorbRange * |x|), so that x + y is x up to a relative 1e-10
\* and y lies between x and 0
Absorbs(x, y) ==
    /\ x.k = "fin" /\ x.n # 0 /\ y.k = "tiny"
    /\ (Abs(y.n) * x.d + AbsorbRange - 1) \div AbsorbRange <= Abs(x.n) * y.d

IsFinite(x) == x.k \in {"fin", "huge", "tiny"}

Sign(x) == IF x.n > 0 THEN 1 ELSE IF x.n < 0 THEN -1 ELSE 0

Inf(s) == IF s > 0 THEN PosInf ELSE NegInf

Neg(x) ==
    CASE x.k = "fin" -> Fin(-x.n, x.d)
      [] x.k = "inf" -> Inf(-x.n)
      [] x.k \in {"huge", "tiny"} -> [x EXCEPT !.n = -x.n]
      [] OTHER -> NaN

\* x + y on floats; a tiny value is added only to a fraction that absorbs it
Add(x, y) ==
    CASE x.k = "nan" \/ y.k = "nan" -> NaN
      [] x.k = "inf" /\ y.k = "inf" -> IF x.n = y.n THEN x ELSE NaN
      [] x.k = "inf" -> x
      [] y.k = "inf" -> y
      [] Absorbs(x, y) -> x
      [] Absorbs(y, x) -> y
      [] x.k = "fin" /\ y.k = "fin" ->
            LET g == GCD(x.d, y.d)
            IN  Fin(x.n * (y.d \div g) + y.n * (x.d \div g), x.d * (y.d \div g))

\* x - y on floats
Sub(x, y) == Add(x, Neg(y))

\* x * y on floats
RECURSIVE Mul(_, _)
Mul(x, y) ==
    CASE x.k = "nan" \/ y.k = "nan" -> NaN
      [] x.k = "inf" \/ y.k = "inf" ->
            IF Sign(x) * Sign(y) = 0 THEN NaN ELSE Inf(Sign(x) * Sign(y))
      [] x.k = "tiny" /\ y.k = "fin" /\ y.n # 0 -> Tiny(Mul(Coef(x), y))
      [] x.k = "fin" /\ x.n # 0 /\ y.k = "tiny" -> Tiny(Mul(x, Coef(y)))
      [] x.k = "fin" /\ y.k = "fin" ->
            LET g1 == GCD(Abs(x.n), y.d)
                g2 == GCD(Abs(y.n), x.d)
            IN  Fin((x.n \div g1) * (y.n \div g2), (x.d \div g2) * (y.d \div g1))

\* x / y with a numpy float64 operand: IEEE division, a zero divisor (+0.0,
\* the only zero of the model) gives inf or nan (with a RuntimeWarning),
\* never an exception
NpDiv(x, y) ==
    CASE x.k = "nan" \/ y.k = "nan" -> NaN
      [] x.k = "inf" /\ y.k = "inf" -> NaN
      [] x.k = "inf" -> Inf(x.n * (IF y.n < 0 THEN -1 ELSE 1))
      [] y.k = "inf" -> Int2(0)
      [] x.k = "fin" /\ x.n # 0 /\ y.k = "huge" -> Tiny(Mul(x, Int2(y.n)))
      [] x.k = "tiny" /\ y.k = "fin" /\ y.n # 0 ->
            Tiny(Mul(Coef(x), Fin(y.d, y.n)))
      [] x.k = "fin" /\ y.k = "fin" /\ y.n = 0 ->
            IF x.n = 0 THEN NaN ELSE Inf(Sign(x))
      [] x.k = "fin" /\ y.k = "fin" /\ y.n # 0 -> Mul(x, Fin(y.d, y.n))

ZeroDivisionError == [k |-> "ZeroDivisionError", n |-> 0, d |-> 0]

\* x / y on two Python floats: a zero divisor raises ZeroDivisionError
PyDiv(x, y) ==
    IF y.k = "fin" /\ y.n = 0 THEN ZeroDivisionError ELSE NpDiv(x, y)

\* the types the arguments can have: Python float (or int), and
\* numpy.float64, which is a subclass of float
NumberTypes == {"float", "float64"}

\* x / y on two arguments of type ty, or values derived from them by + - /
Div(ty, x, y) == IF ty = "float" THEN PyDiv(x, y) ELSE NpDiv(x, y)

\* x < y on floats (false when either side is nan); a tiny value is compared
\* with zero, with another tiny value, or with a fraction that absorbs it
Less(x, y) ==
    CASE x.k = "nan" \/ y.k = "nan" -> FALSE
      [] x.k = "inf" /\ y.k = "inf" -> x.n < y.n
      [] x.k = "inf" /\ y.k # "inf" -> x.n < 0
      [] x.k # "inf" /\ y.k = "inf" -> y.n > 0
      [] x.k = "tiny" /\ y.k = "tiny" -> x.n * y.d < y.n * x.d
      [] x.k = "tiny" /\ y.k = "fin" /\ y.n = 0 -> x.n < 0
      [] x.k = "fin" /\ x.n = 0 /\ y.k = "tiny" -> y.n > 0
      [] Absorbs(y, x) -> y.n > 0
      [] Absorbs(x, y) -> x.n < 0
      [] x.k = "fin" /\ y.k = "fin" -> x.n * y.d < y.n * x.d

Leq(x, y) == Less(x, y) \/ (x.k # "nan" /\ x = y)

(* ---------------------------- angles ---------------------------------- *)
NoAngle == [c |-> None, m |-> 0, t |-> None]

\* np.arctan(t)
ArcTan(t) == [c |-> Int2(0), m |-> 1, t |-> t]

\* RAD_180 = np.pi / 2, in units of pi
RAD_180 == Fin(1, 2)

\* rad - i * angle, for a constant rad given in units of pi
AngleSub(rad, i, a) == [c |-> Sub(rad, Mul(Int2(i), a.c)), m |-> -(i * a.m), t |-> a.t]

\* The double angle identity stands for np.tan only where the float alpha is
\* well away from the zero and the poles of tan: alpha = RAD_180 - 2*beta
\* carries an absolute rounding error of about 2e-16, which is a relative
\* error of about 2e-16 / d in tan(alpha) when alpha is within d of 0, pi/2,
\* -pi/2 or pi.  TanRange keeps d above 1e-6 (relative error below 1e-9).
TanRange == 2 ^ 20

\* the tangents t of beta for which Tan is defined:
\*   1/TanRange <= |t| <= TanRange  (alpha away from pi/2 and -pi/2), and
\*   t = 1 or | |t| - 1 | >= 1/TanRange  (alpha away from 0 and pi).
\* t = 1 is kept: height / width is then the float 1.0, np.arctan(1.0) is the
\* float pi/4, alpha is exactly 0.0 and np.tan(alpha) is 0.0.
\* Outside (t = 2^-60, t = 2^53, t = 1 - 2^-53, t = -1, all of which valid
\* arguments or their mirror images can produce) np.tan returns the tangent
\* of a rounded angle, e.g. 1.633e16 for the float pi/2, and the identity
\* does not describe it.
TanDefined(t) ==
    /\ t.k = "fin"
    /\ LET u == IF t.n < 0 THEN Neg(t) ELSE t
           e == Fin(1, TanRange)
       IN  /\ Leq(e, u)
           /\ Leq(u, Int2(TanRange))
           /\ \/ t = Int2(1)
              \/ Leq(u, Sub(Int2(1), e))
              \/ Leq(Add(Int2(1), e), u)

\* np.tan(a) for a = pi/2 - 2*arctan(t), t in TanDefined:
\* tan(pi/2 - 2b) = cot(2b) = (1 - tan(b)^2) / (2 tan(b)).
\* For t = +inf (height / 0.0 on float64): np.arctan(inf) is the float
\* 1.5707963267948966, a = RAD_180 - 2*beta is exactly -1.5707963267948966
\* and np.tan(a) is -1.633123935319537e16, finite.
Tan(a) ==
    CASE a.c = Fin(1, 2) /\ a.m = -2 /\ TanDefined(a.t) ->
            NpDiv(Sub(Int2(1), Mul(a.t, a.t)), Mul(Int2(2), a.t))
      [] a.c = Fin(1, 2) /\ a.m = -2 /\ a.t = PosInf -> Huge(-1)

(* ---------------------------- functions ------------------------------- *)
\* width = (diameter_top - diameter_base) / 2
Width(diameter_top, diameter_base) ==
    PyDiv(Sub(diameter_top, diameter_base), Int2(2))

\* compute_angles on arguments of type ty: <<alpha, beta>>, or
\* <<ZeroDivisionError>> when it raises
compute_angles(ty, diameter_top, diameter_base, height) ==
    LET width == Width(diameter_top, diameter_base)
        tan_beta == Div(ty, height, width)
        beta == ArcTan(tan_beta)
        alpha == AngleSub(RAD_180, 2, beta)
    IN  IF tan_beta = ZeroDivisionError THEN <<ZeroDivisionError>>
        ELSE <<alpha, beta>>

\* v_cone, in units of pi
v_cone(ray, height) == NpDiv(Mul(Mul(ray, ray), height), Int2(3))

(* ---------------------------- inputs ---------------------------------- *)
Lengths == {Int2(i) : i \in 1..MaxLen}

EpsLengths == {Int2(i) : i \in 1..MaxEpsLen}

Epsilons == {Fin(1, 2 ^ j) : j \in 1..MaxEpsExp}

\* the inputs of the demonstration at the end of the file,
\* as <<diameter_base, diameter_top, height>>
DemoInputs == {<<Int2(11), Int2(19), Int2(18)>>, <<Int2(17), Int2(18), Int2(16)>>}

\* <<diameter_base, diameter_top, height>>: positive, diameter_top >= diameter_base
Inputs ==
    {<<b, t, h>> \in Lengths \X Lengths \X Lengths : Leq(b, t)}
    \cup {<<b, Add(b, e), h>> : b \in EpsLengths, e \in Epsilons, h \in EpsLengths}
    \cup DemoInputs

(* ---------------------------- state ----------------------------------- *)
VARIABLES
    number_type,                           \* type of the arguments of v_pot
    diameter_base, diameter_top, height,   \* arguments of v_pot
    pc,                                    \* position in v_pot
    alpha, beta,                           \* returned by compute_angles
    h_small_cone, h_big_cone,
    v_small_cone, v_big_cone,
    cone_calls,                            \* arguments of the calls of v_cone so far
    result                                 \* value returned by v_pot

vars == <<number_type, diameter_base, diameter_top, height, pc, alpha, beta, h_small_cone,
          h_big_cone, v_small_cone, v_big_cone, cone_calls, result>>

args == <<diameter_base, diameter_top, height>>

call == <<number_type, diameter_base, diameter_top, height>>

Init ==
    /\ number_type \in NumberTypes
    /\ \E i \in Inputs :
          /\ diameter_base = i[1]
          /\ diameter_top = i[2]
          /\ height = i[3]
    /\ pc = "start"
    /\ alpha = NoAngle
    /\ beta = NoAngle
    /\ h_small_cone = None
    /\ h_big_cone = None
    /\ v_small_cone = None
    /\ v_big_cone = None
    /\ cone_calls = <<>>
    /\ result = None

\* A) alpha, _ = compute_angles(...); an exception leaves v_pot
CallComputeAngles ==
    /\ pc = "start"
    /\ LET r == compute_angles(number_type, diameter_top, diameter_base, height)
       IN  IF r = <<ZeroDivisionError>>
           THEN /\ pc' = "raised"
                /\ UNCHANGED <<alpha, beta>>
           ELSE /\ pc' = "angles"
                /\ alpha' = r[1]
                /\ beta' = r[2]
    /\ UNCHANGED <<call, h_small_cone, h_big_cone, v_small_cone, v_big_cone,
                   cone_calls, result>>

\* B) h_small_cone = (diameter_base / 2) / np.tan(alpha)
SmallConeHeight ==
    /\ pc = "angles"
    /\ h_small_cone' = NpDiv(PyDiv(diameter_base, Int2(2)), Tan(alpha))
    /\ pc' = "h_small"
    /\ UNCHANGED <<call, alpha, beta, h_big_cone, v_small_cone, v_big_cone,
                   cone_calls, result>>

\* h_big_cone = height - h_small_cone: a difference where the code adds
BigConeHeightMinus ==
    /\ pc = "h_small"
    /\ h_big_cone' = Sub(height, h_small_cone)
    /\ pc' = "h_big"
    /\ UNCHANGED <<call, alpha, beta, h_small_cone, v_small_cone, v_big_cone,
                   cone_calls, result>>

\* h_big_cone = height + h_small_cone
BigConeHeight ==
    /\ pc = "h_small"
    /\ h_big_cone' = Add(height, h_small_cone)
    /\ pc' = "h_big"
    /\ UNCHANGED <<call, alpha, beta, h_small_cone, v_small_cone, v_big_cone,
                   cone_calls, result>>

\* C) v_small_cone = v_cone(ray=diameter_base/2, height=h_small_cone)
SmallConeVolume ==
    /\ pc = "h_big"
    /\ LET ray == PyDiv(diameter_base, Int2(2))
       IN  /\ v_small_cone' = v_cone(ray, h_small_cone)
           /\ cone_calls' = Append(cone_calls, [ray |-> ray, height |-> h_small_cone])
    /\ pc' = "v_small"
    /\ UNCHANGED <<call, alpha, beta, h_small_cone, h_big_cone, v_big_cone, result>>

\* v_big_cone = v_cone(ray=diameter_top/2, height=h_big_cone)
BigConeVolume ==
    /\ pc = "v_small"
    /\ LET ray == PyDiv(diameter_top, Int2(2))
       IN  /\ v_big_cone' = v_cone(ray, h_big_cone)
           /\ cone_calls' = Append(cone_calls, [ray |-> ray, height |-> h_big_cone])
    /\ pc' = "v_big"
    /\ UNCHANGED <<call, alpha, beta, h_small_cone, h_big_cone, v_small_cone, result>>

\* return v_big_cone - v_small_cone
Return ==
    /\ pc = "v_big"
    /\ result' = Sub(v_big_cone, v_small_cone)
    /\ pc' = "done"
    /\ UNCHANGED <<call, alpha, beta, h_small_cone, h_big_cone, v_small_cone,
                   v_big_cone, cone_calls>>

Next ==
    \/ CallComputeAngles
    \/ SmallConeHeight
    \/ BigConeHeight
    \/ SmallConeVolume
    \/ BigConeVolume
    \/ Return

Spec == Init /\ [][Next]_vars

\* v_pot as a function of its arguments of type ty: the value the steps
\* above return, ZeroDivisionError when compute_angles raises.  Defined where
\* Tan is, which covers every input of Inputs.  The code's float is within
\* 1e-9 * (ray_top^2 + ray_base^2) * (height + |h_small_cone|) / 3 of it (in
\* units of pi), an absolute bound: near a zero of the value the two can
\* differ in sign.
v_pot(ty, db, dt, h) ==
    LET r == compute_angles(ty, dt, db, h)
        hs == NpDiv(PyDiv(db, Int2(2)), Tan(r[1]))
        hb == Add(h, hs)
    IN  IF r = <<ZeroDivisionError>> THEN ZeroDivisionError
        ELSE Sub(v_cone(PyDiv(dt, Int2(2)), hb), v_cone(PyDiv(db, Int2(2)), hs))

(* ---------------------------- properties ------------------------------ *)
Zero == Int2(0)

AbsV(x) == IF Less(x, Zero) THEN Neg(x) ELSE x

Scenario1 == <<Int2(11), Int2(19), Int2(18)>>

\* rational brackets of pi: 333/106 < pi < 355/113
PiLo == Fin(333, 106)
PiHi == Fin(355, 113)

\* the precondition of the construction: diameter_top > diameter_base > 0, height > 0
Valid ==
    /\ Less(Zero, diameter_base)
    /\ Less(diameter_base, diameter_top)
    /\ Less(Zero, height)

Done == pc = "done"

\* compute_angles has returned to v_pot
AnglesReturned == pc \in {"angles", "h_small", "h_big", "v_small", "v_big", "done"}

\* volume of the frustum with radii R, r and height h, in units of pi:
\* h/3 * (R^2 + R*r + r^2)
Frustum(db, dt, h) ==
    LET R == NpDiv(dt, Int2(2))
        r == NpDiv(db, Int2(2))
    IN  NpDiv(Mul(h, Add(Add(Mul(R, R), Mul(R, r)), Mul(r, r))), Int2(3))

\* volume of the cylinder of diameter db and height h, in units of pi
Cylinder(db, h) == Mul(Mul(NpDiv(db, Int2(2)), NpDiv(db, Int2(2))), h)

\* the angle c*pi + m*arctan(t) lies strictly between 0 and pi/2:
\*   arctan(t) is in (0, pi/2) iff t is finite and t > 0;
\*   pi/2 - 2*arctan(t) is in (0, pi/2) iff 0 < arctan(t) < pi/4 iff 0 < t < 1
Acute(a) ==
    CASE a.c = Zero /\ a.m = 1 -> IsFinite(a.t) /\ Less(Zero, a.t)
      [] a.c = Fin(1, 2) /\ a.m = -2 -> Less(Zero, a.t) /\ Less(a.t, Int2(1))
      [] OTHER -> FALSE

\* C1: on valid inputs the value returned by v_pot is the volume of the
\* frustum, pi * height / 3 * (R^2 + R*r + r^2).
C1_FrustumVolume ==
    (Done /\ Valid) => result = Frustum(diameter_base, diameter_top, height)

\* C2: on valid inputs v_pot returns a strictly positive finite value.
C2_PositiveFinite ==
    (Done /\ Valid) => (IsFinite(result) /\ Less(Zero, result))

\* C3: with diameter_base and height fixed, v_pot is strictly increasing in
\* diameter_top: every larger top diameter gives a larger volume.
C3_IncreasingInTop ==
    (Done /\ Valid) =>
        \A i \in Inputs :
            (i[1] = diameter_base /\ i[3] = height /\ Less(diameter_top, i[2]))
                => Less(result, v_pot(number_type, i[1], i[2], i[3]))

\* C4: for diameter_top = diameter_base + eps with the smallest eps tried, the
\* value returned is within a tenth of the cylinder volume
\* pi * (diameter_base/2)^2 * height.
C4_CylinderLimit ==
    (Done /\ diameter_top = Add(diameter_base, Fin(1, 2 ^ MaxEpsExp))) =>
        Leq(Mul(Int2(10), AbsV(Sub(result, Cylinder(diameter_base, height)))),
            Cylinder(diameter_base, height))

\* a returned angle c*pi + m*arctan(t) is a finite number (arctan of an
\* infinity is pi/2 or -pi/2)
AngleFinite(a) == a.c.k = "fin" /\ a.t.k \in {"fin", "inf"}

\* C5: when diameter_top = diameter_base, neither compute_angles nor v_pot
\* returns a finite number: each raises or returns a non-finite value.
C5_ZeroWidthRejected ==
    (diameter_top = diameter_base) =>
        /\ AnglesReturned => ~(AngleFinite(alpha) /\ AngleFinite(beta))
        /\ Done => ~IsFinite(result)

\* C6: for diameter_top=19, diameter_base=11, height=18 the angles alpha and
\* beta returned by compute_angles both lie strictly between 0 and pi/2.
C6_ScenarioAnglesAcute ==
    (args = Scenario1 /\ AnglesReturned) => (Acute(alpha) /\ Acute(beta))

\* C7: v_pot(diameter_base=11, diameter_top=19, height=18) is approximately
\* 3505.75, i.e. within 0.5 of it.
C7_Scenario3505 ==
    (args = Scenario1 /\ Done) =>
        /\ Leq(Fin(350525, 100), Mul(PiHi, result))
        /\ Leq(Mul(PiLo, result), Fin(350625, 100))

\* C8: the height passed to v_cone for the big cone is the input height plus
\* the height passed to v_cone for the small cone, which is h_small_cone.
C8_ConeHeightRelation ==
    (Valid /\ Len(cone_calls) = 2) =>
        /\ cone_calls[1].height = h_small_cone
        /\ cone_calls[2].height = Add(height, cone_calls[1].height)

C8_Witness ==
    /\ Valid /\ Done /\ Len(cone_calls) = 2
    /\ IsFinite(cone_calls[1].height) /\ cone_calls[1].height # Zero

\* C9: on valid inputs every height passed to v_cone is non-negative, the big
\* cone is at least as high as the pot, and both cone volumes are non-negative.
C9_ConeHeightsNonNegative ==
    (Valid /\ Done) =>
        /\ \A j \in DOMAIN cone_calls : Leq(Zero, cone_calls[j].height)
        /\ Leq(height, h_big_cone)
        /\ Leq(Zero, v_small_cone)
        /\ Leq(Zero, v_big_cone)

====
